---- MODULE Spec2Model ----
(***************************************************************************)
(* A model of nou::Optional<T> (include/nostrautils/optional.hpp) driven   *)
(* by the wrapped types of test/optional.wt.cpp.                           *)
(*                                                                         *)
(* Every container is a slot of `opt`.  A slot records the two members of  *)
(* OptionalStorage (m_isValid, m_data), the template argument T and two    *)
(* ghost counters: how many T objects were constructed in the storage      *)
(* cell and how many were destroyed there.  `last` records the most recent *)
(* call: which member function ran, on which container, with which         *)
(* arguments, what it returned, and the constructors and destructors of    *)
(* the wrapped types it invoked, in the order it invoked them.             *)
(*                                                                         *)
(* nou::NotNull<T> (include/nostrautils/notnull.hpp) and the assertion     *)
(* mechanism (src/assert.cpp) are modelled next to it, each with a         *)
(* specification of its own (SpecNotNull, SpecAssert); the three share the *)
(* state of the process they run in.                                       *)
(***************************************************************************)
EXTENDS Integers, Sequences, FiniteSets, TLC

\* ------------------------------------------------------------------ bounds
\* Largest m_value the driver passes in (m_value is a nou::uint32).
MaxValue == 1
\* Most T objects the driver lets one storage cell see over its life.
MaxCtor == 2

Values == 0..MaxValue

\* The driver's two containers: `opt` is put through every member function,
\* `other` is its peer in copy and move construction (as source and as
\* destination).
Slots == {"opt", "other"}
Operated == {"opt"}

\* ------------------------------------------------------- the wrapped types
\* test/optional.wt.cpp: TriviallyDestructible, TriviallyDestructible2,
\* Test1, Test2.
Types == {"Test1", "Test2", "TriviallyDestructible", "TriviallyDestructible2"}

\* IsTriviallyDestructible<T>::value, the second template argument of
\* OptionalStorage: Test1 and Test2 declare a destructor, the other two do not.
TRIV_DEST(T) == T \in {"TriviallyDestructible", "TriviallyDestructible2"}

\* IsConstructible<T, U> for wrapped types: every T from itself, Test2 from
\* Test1, and the two trivially destructible types from each other.
IsConstructible(T, U) ==
    \/ T = U
    \/ T = "Test2" /\ U = "Test1"
    \/ T = "TriviallyDestructible2" /\ U = "TriviallyDestructible"
    \/ T = "TriviallyDestructible" /\ U = "TriviallyDestructible2"

\* The m_value of T constructed from a U whose m_value is v.  Every copy,
\* move and converting constructor of the test types copies m_value, except
\* TriviallyDestructible(const TriviallyDestructible2 &), which stores 0.
ConvertValue(T, U, v) ==
    IF T = "TriviallyDestructible" /\ U = "TriviallyDestructible2" THEN 0 ELSE v

\* Which constructor of T an argument of type U selects: the copy
\* constructor for an lvalue T, the move constructor for an rvalue T, the
\* converting constructor T(const U &) otherwise.
SelectCtor(T, U, rvalue) ==
    IF T # U THEN "conv" ELSE IF rvalue THEN "move" ELSE "copy"

\* The wrapped types that declare T(nou::uint32): all but Test2.
HasValueCtor(T) == T # "Test2"

\* The argument packs the driver forwards to T's constructor:
\*   none          T()
\*   val           T(nou::uint32), for the types that declare it
\*   obj           T(const U &) or T(U &&) for an object of type U
NoArg == [k |-> "none", U |-> "-", v |-> 0, rvalue |-> FALSE]
ValArg(v) == [k |-> "val", U |-> "-", v |-> v, rvalue |-> FALSE]
ObjArg(U, v, rv) == [k |-> "obj", U |-> U, v |-> v, rvalue |-> rv]

Args(T) ==
    {NoArg} \cup {ValArg(v) : v \in {w \in Values : HasValueCtor(T)}}
    \cup {ObjArg(U, v, rv) : U \in {X \in Types : IsConstructible(T, X)},
                             v \in Values, rv \in BOOLEAN}

\* T(args...): the object the constructor of T builds from an argument pack;
\* `by` names the constructor that ran.
Construct(T, a) ==
    CASE a.k = "none" -> [m_value |-> 0, by |-> "default"]
      [] a.k = "val" -> [m_value |-> a.v, by |-> "value"]
      [] a.k = "obj" -> [m_value |-> ConvertValue(T, a.U, a.v),
                         by |-> SelectCtor(T, a.U, a.rvalue)]

\* --------------------------------------------------------------- the state
VARIABLES opt, last

\* The state of the other components: the NotNull instance of the driver
\* and its last call, the static members of nou::AssertionSettings and the
\* last call of assertImpl, and whether the process still runs.
VARIABLES notNull, lastNN, AssertionSettings, lastAssert, process

vars == <<opt, last, notNull, lastNN, AssertionSettings, lastAssert, process>>

\* What a member function of Optional leaves alone.
NotOptional == <<notNull, lastNN, AssertionSettings, lastAssert, process>>

\* The union { Type m_data; Empty m_dummy; } of OptionalStorage.
\*   uninit   m_dummy is active, no T was ever constructed in the cell
\*   obj      a T object (id: its rank among the objects built in this cell)
\*   dead     the T object `id` had its destructor run
Uninit == [k |-> "uninit", id |-> 0, m_value |-> 0]
Obj(id, v) == [k |-> "obj", id |-> id, m_value |-> v]
Dead(d) == [k |-> "dead", id |-> d.id, m_value |-> 0]

\* A container the driver has not declared yet.
NoOptional ==
    [life |-> "none", T |-> "-", m_isValid |-> FALSE, m_data |-> Uninit,
     nCtor |-> 0, nDtor |-> 0]

\* One constructor or destructor call of a wrapped type: on the object `id`
\* of the storage cell (at = "cell"), on a returned T (at = "ret") or on the
\* wrapped object of a temporary Optional (at = "tmp").
CtorCall(T, at, id, by) == [ev |-> "ctor", T |-> T, at |-> at, id |-> id, by |-> by]
DtorCall(T, at, id) == [ev |-> "dtor", T |-> T, at |-> at, id |-> id, by |-> "-"]

\* A member function runs on a context: the storage s it works on and the
\* calls of T's constructors and destructors it has made so far.
Enter(s) == [s |-> s, calls |-> <<>>]

\* What a call returns: nothing (void), a bool, a T by value (by: the
\* constructor that built it), a reference or a pointer (at: the object it
\* refers to: the cell's m_data, the caller's obj, or nullptr), an Optional.
\* v is the m_value of the T returned or referred to.
NoRet == [k |-> "void", v |-> 0, by |-> "-", at |-> "-"]

\* The record of a call; after names the call that came before it when that
\* was a set(args...), a reset() or a move() on the same container.
Call(op, self, other, arg, ret, calls) ==
    [op |-> op, self |-> self, other |-> other, arg |-> arg, ret |-> ret,
     calls |-> calls,
     after |-> IF last.self = self /\ last.op \in {"set(args)", "reset()", "move()"}
               THEN last.op ELSE "-"]

\* The calls among cs that are constructor (destructor) calls.
Ctors(cs) == {i \in 1..Len(cs) : cs[i].ev = "ctor"}
Dtors(cs) == {i \in 1..Len(cs) : cs[i].ev = "dtor"}

\* Objects constructed in the cell and not destroyed there.
LiveObjects(s) == s.nCtor - s.nDtor

\* --------------------------------------------------------- OptionalStorage
\* OptionalStorage::OptionalStorage(): m_dummy(), m_isValid(false).
StorageDefault(T) ==
    Enter([life |-> "alive", T |-> T, m_isValid |-> FALSE, m_data |-> Uninit,
           nCtor |-> 0, nDtor |-> 0])

\* A T constructed in the cell from the pack a (a mem-initializer
\* m_data(...) or new(&get()) Type(...)): the object gets the next id.
Emplace(x, a) ==
    [s |-> [x.s EXCEPT !.m_data = Obj(x.s.nCtor + 1, Construct(x.s.T, a).m_value),
                       !.nCtor = @ + 1],
     calls |-> Append(x.calls,
                      CtorCall(x.s.T, "cell", x.s.nCtor + 1, Construct(x.s.T, a).by))]

\* The assignment m_isValid = b (or the mem-initializer m_isValid(b)).
SetValid(x, b) == [x EXCEPT !.s.m_isValid = b]

\* A slip in the mem-initializers: m_data() instead of m_data(forward<ARGS>(args)...).
StorageValue_IgnoresArgs(T, a) == SetValid(Emplace(StorageDefault(T), NoArg), TRUE)

\* OptionalStorage::OptionalStorage(ARGS &&... args):
\* m_data(forward<ARGS>(args)...), m_isValid(true).
StorageValue(T, a) == SetValid(Emplace(StorageDefault(T), a), TRUE)

\* Optional::isValid() const.
isValid(s) == s.m_isValid

\* Optional::get(): a reference to m_data.
get(s) == s.m_data

\* OptionalStorage(const DummyValid &, const Optional<OT> &other):
\* m_data(other.get()), m_isValid(true).  other.get() is a const lvalue.
StorageDummyValid(T, other) ==
    SetValid(Emplace(StorageDefault(T), ObjArg(other.T, get(other).m_value, FALSE)),
             TRUE)

\* OptionalStorage(const DummyInvalid &, const Optional<OT> &other):
\* m_dummy(), m_isValid(false).
StorageDummyInvalid(T, other) == StorageDefault(T)

\* A copy that takes the DummyValid branch without testing other.isValid().
StorageCopy_NoTest(T, other) == StorageDummyValid(T, other)

\* OptionalStorage(const Optional<OT> &other): delegates to the prvalue
\* other.isValid() ? OptionalStorage(DummyValid{}, other)
\*                 : OptionalStorage(DummyInvalid{}, other),
\* which initializes the storage under construction directly.
StorageCopy(T, other) ==
    IF isValid(other) THEN StorageDummyValid(T, other)
                      ELSE StorageDummyInvalid(T, other)

\* The empty destroy() of the primary template, used for every T.
destroy_Never(x) == x

\* destroy() without its test of m_isValid.
destroy_Unconditional(x) ==
    IF TRIV_DEST(x.s.T) THEN x
    ELSE [s |-> [x.s EXCEPT !.m_data = Dead(@), !.nDtor = @ + 1],
          calls |-> Append(x.calls, DtorCall(x.s.T, "cell", x.s.m_data.id))]

\* OptionalStorage<T, TRIV_DEST>::destroy(): empty for a trivially
\* destructible T; OptionalStorage<T, false>::destroy():
\* if(m_isValid) m_data.~Type().
destroy(x) ==
    IF TRIV_DEST(x.s.T) THEN x
    ELSE IF x.s.m_isValid
         THEN [s |-> [x.s EXCEPT !.m_data = Dead(@), !.nDtor = @ + 1],
               calls |-> Append(x.calls, DtorCall(x.s.T, "cell", x.s.m_data.id))]
         ELSE x

\* ---------------------------------------------------------------- Optional
\* set() without its call of Base::destroy().
set_NoDestroy(x, a) == SetValid(Emplace(x, a), TRUE)

\* Optional::set(ARGS &&... args): Base::destroy();
\* new(&get()) Type(forward<ARGS>(args)...); Base::m_isValid = true.
set(x, a) == SetValid(Emplace(destroy(x), a), TRUE)

\* reset() without its assignment Base::m_isValid = false.
reset_KeepsFlag(x) == destroy(x)

\* Optional::set(ARGS &&... args) left by an exception of Type's constructor:
\* Base::destroy() and nothing more.
setThrows(x, a) == destroy(x)

\* Optional::reset(): Base::destroy(); Base::m_isValid = false.
reset(x) == SetValid(destroy(x), FALSE)

\* set(invalidOpt) that clears the flag and leaves the wrapped object alone.
setInvalidOpt_OnlyFlag(x) == SetValid(x, FALSE)

\* Optional::set(const internal::InvalidOpt &): reset().
setInvalidOpt(x) == reset(x)

\* A default constructor that value-initializes m_data instead of m_dummy.
OptionalDefault_ConstructsT(T) == SetValid(Emplace(StorageDefault(T), NoArg), FALSE)

\* Optional::Optional(): Base().
OptionalDefault(T) == StorageDefault(T)

\* Optional::Optional(ARGS &&... args): Base(forward<ARGS>(args)...).
OptionalValue(T, a) == StorageValue(T, a)

\* A constructor from invalidOpt() that forwards the marker to the value
\* constructor of the base, Base(invalidOpt).
OptionalInvalidOpt_Forwards(T) == StorageValue(T, NoArg)

\* Optional::Optional(const internal::InvalidOpt &): Base().
OptionalInvalidOpt(T) == StorageDefault(T)

\* The constructor the expression Optional<T>(args...) selects: for an empty
\* pack the non-template Optional() is a better match than the constructor
\* template Optional(ARGS &&...), for the other packs of the driver the
\* template is the only viable one.
OptionalFromArgs(T, a) ==
    IF a.k = "none" THEN OptionalDefault(T) ELSE OptionalValue(T, a)

\* Optional::Optional(const Optional<OT> &other) and
\* Optional::Optional(const Optional &other): Base(other).
OptionalCopy(T, other) == StorageCopy(T, other)

\* The source of a copy construction afterwards: the parameter is a
\* reference to const, only isValid() const and get() const are called on it.
SourceAfterCopy(other) == other

\* A move constructor that resets the source it moved from.
SourceAfterMove_Invalidates(other) == reset(Enter(other)).s

\* The source of a move construction afterwards: the constructor calls
\* other.isValid() and other.get() and hands the lvalue other.get() to set().
SourceAfterMove(other) == other

\* A move constructor with the test of other.isValid() inverted.
OptionalMove_Inverted(T, other) ==
    IF ~isValid(other)
    THEN set(StorageDefault(T), ObjArg(other.T, get(other).m_value, FALSE))
    ELSE StorageDefault(T)

\* Optional::Optional(Optional<OT> &&other) and Optional::Optional(Optional &&other):
\* the base is default-constructed, then if(other.isValid()) set(other.get()).
\* other.get() is an lvalue of type OT.
OptionalMove(T, other) ==
    IF isValid(other)
    THEN set(StorageDefault(T), ObjArg(other.T, get(other).m_value, FALSE))
    ELSE StorageDefault(T)

\* What reading m_value through a reference to the cell can give: the value
\* of the object in it, or, when no object is alive there (the documented
\* undefined behaviour of get() and move() on an invalid instance), anything.
ReadValue(s) == IF s.m_data.k = "obj" THEN {s.m_data.m_value} ELSE Values

\* Optional::set(Type &) called with get() of the same container:
\* Base::destroy() first, then new(&get()) Type(get()) copy-constructs from
\* the cell itself.  After the destructor has run the object read is
\* destroyed and the read is undefined: any value may come out of it.
setSelf(x) ==
    {SetValid(Emplace(destroy(x), ObjArg(x.s.T, v, FALSE)), TRUE) :
        v \in ReadValue(destroy(x).s)}

\* A returned T that is copy-constructed from the object.
ReturnT_Copies(x, v) ==
    [x |-> [x EXCEPT !.calls = Append(@, CtorCall(x.s.T, "ret", 0,
                                         Construct(x.s.T, ObjArg(x.s.T, v, FALSE)).by))],
     ret |-> [k |-> "T", v |-> Construct(x.s.T, ObjArg(x.s.T, v, FALSE)).m_value,
              by |-> Construct(x.s.T, ObjArg(x.s.T, v, FALSE)).by, at |-> "-"]]

\* A T returned by value, move-constructed from an object whose m_value is v.
ReturnT(x, v) ==
    [x |-> [x EXCEPT !.calls = Append(@, CtorCall(x.s.T, "ret", 0,
                                         Construct(x.s.T, ObjArg(x.s.T, v, TRUE)).by))],
     ret |-> [k |-> "T", v |-> Construct(x.s.T, ObjArg(x.s.T, v, TRUE)).m_value,
              by |-> Construct(x.s.T, ObjArg(x.s.T, v, TRUE)).by, at |-> "-"]]

\* A move() that resets the container it moved out of.
move_Invalidates(x) ==
    {[x |-> reset(ReturnT(x, v).x), ret |-> ReturnT(x, v).ret] : v \in ReadValue(x.s)}

\* Optional::move(): return ::nou::move(get()).  The set of outcomes
\* [x: the context afterwards, ret: the returned T].
move(x) == {ReturnT(x, v) : v \in ReadValue(x.s)}

\* A moveOr() that always moves out of obj.
moveOr_AlwaysFallback(x, v) == {ReturnT(x, v)}

\* Optional::moveOr(Type &&obj): isValid() ? ::nou::move(get()) : ::nou::move(obj).
moveOr(x, v) == IF isValid(x.s) THEN move(x) ELSE {ReturnT(x, v)}

\* A defaulted destructor for every T: the union member is left alone.
destructor_Defaulted(x) == [x EXCEPT !.s.life = "dead"]

\* ~Optional(): ~OptionalStorage() calls destroy() (the destructor of
\* OptionalStorage<T, true> is defaulted).
destructor(x) == [destroy(x) EXCEPT !.s.life = "dead"]

\* The calls cs, made on the wrapped object of a temporary container.
OnTemporary(cs) == [i \in 1..Len(cs) |-> [cs[i] EXCEPT !.at = "tmp", !.id = 0]]

\* An operator= whose returned temporary is never destroyed.
operatorAssign_LeaksTemporary(x, a) ==
    [x |-> [set(x, a) EXCEPT !.calls =
               @ \o OnTemporary(OptionalCopy(x.s.T, set(x, a).s).calls)],
     ret |-> [k |-> "Optional", v |-> get(OptionalCopy(x.s.T, set(x, a).s).s).m_value,
              by |-> "-", at |-> "-"]]

\* An operator= that builds the new value in the returned temporary only.
operatorAssign_OnlyTemporary(x, a) ==
    [x |-> [x EXCEPT !.calls =
               @ \o OnTemporary(destructor(OptionalValue(x.s.T, a)).calls)],
     ret |-> [k |-> "Optional", v |-> Construct(x.s.T, a).m_value,
              by |-> "-", at |-> "-"]]

\* Optional::operator=(ARGS &&... args): set(forward<ARGS>(args)...); return *this.
\* The return type is Optional<T>, so the result is a temporary copied from
\* *this by Optional(const Optional &); it is destroyed with the expression.
operatorAssign(x, a) ==
    [x |-> [set(x, a) EXCEPT !.calls =
               @ \o OnTemporary(destructor(OptionalCopy(x.s.T, set(x, a).s)).calls)],
     ret |-> [k |-> "Optional", v |-> get(OptionalCopy(x.s.T, set(x, a).s).s).m_value,
              by |-> "-", at |-> "-"]]

\* A bool returned by value.
BoolRet(b) == [k |-> IF b THEN "true" ELSE "false", v |-> 0, by |-> "-", at |-> "-"]

\* A Type & to the object `at`; v is what reading m_value through it gives.
RefTo(at, v) == [k |-> "T&", v |-> v, by |-> "-", at |-> at]

\* A Type * to the object `at` (or nullptr).
PtrTo(at) == [k |-> "T*", v |-> 0, by |-> "-", at |-> at]

\* A call the compiler rejects when the member is instantiated.
IllFormed == [k |-> "ill-formed", v |-> 0, by |-> "-", at |-> "-"]

\* Optional::get() as a call: return Base::m_data.  The references it can
\* return, with what the caller reads through them.
getRef(s) == {RefTo("m_data", v) : v \in ReadValue(s)}

\* A getOr() that returns get() whatever the flag says.
getOr_AlwaysGet(s, v) == getRef(s)

\* Optional::getOr(Type &obj) and getOr(const Type &obj) const:
\* return isValid() ? get() : obj.
getOr(s, v) == IF isValid(s) THEN getRef(s) ELSE {RefTo("obj", v)}

\* A ptr() with the two branches of its conditional swapped.
ptr_Swapped(s) == IF isValid(s) THEN PtrTo("nullptr") ELSE PtrTo("m_data")

\* Optional::ptr() and ptr() const: return isValid() ? &get() : nullptr.
ptr(s) == IF isValid(s) THEN PtrTo("m_data") ELSE PtrTo("nullptr")

\* Optional::operator*() and operator*() const: return get().
operatorStar(s) == getRef(s)

\* Optional::operator->(): return ptr().
operatorArrow(s) == ptr(s)

\* Optional::operator->() const: return ptr;  the name of the overloaded
\* member function, not a call of it: it does not convert to const Type *.
operatorArrowConst(s) == IllFormed

\* ----------------------------------------------------------------- actions
Fresh(c) == opt[c].life = "none"
Alive(c) == opt[c].life = "alive"

\* nou::Optional<T> c;
DefaultConstruct(c, T) ==
    /\ UNCHANGED NotOptional
    /\ Fresh(c)
    /\ LET x == OptionalDefault(T)
       IN /\ opt' = [opt EXCEPT ![c] = x.s]
          /\ last' = Call("Optional()", c, "-", NoArg, NoRet, x.calls)

\* nou::Optional<T> c = nou::Optional<T>(args...);
ValueConstruct(c, T, a) ==
    /\ UNCHANGED NotOptional
    /\ Fresh(c)
    /\ LET x == OptionalFromArgs(T, a)
       IN /\ opt' = [opt EXCEPT ![c] = x.s]
          /\ last' = Call("Optional(args)", c, "-", a, NoRet, x.calls)

\* nou::Optional<T> c = nou::invalidOpt();
InvalidOptConstruct(c, T) ==
    /\ UNCHANGED NotOptional
    /\ Fresh(c)
    /\ LET x == OptionalInvalidOpt(T)
       IN /\ opt' = [opt EXCEPT ![c] = x.s]
          /\ last' = Call("Optional(invalidOpt)", c, "-", NoArg, NoRet, x.calls)

\* nou::Optional<T> c(o);  for an lvalue o of type Optional<OT>
CopyConstruct(c, T, o) ==
    /\ UNCHANGED NotOptional
    /\ Fresh(c)
    /\ o # c /\ Alive(o)
    /\ IsConstructible(T, opt[o].T)
    /\ LET x == OptionalCopy(T, opt[o])
       IN /\ opt' = [opt EXCEPT ![c] = x.s, ![o] = SourceAfterCopy(opt[o])]
          /\ last' = Call("Optional(const Optional&)", c, o, NoArg, NoRet, x.calls)

\* nou::Optional<T> c(nou::move(o));  for o of type Optional<OT>
MoveConstruct(c, T, o) ==
    /\ UNCHANGED NotOptional
    /\ Fresh(c)
    /\ o # c /\ Alive(o)
    /\ IsConstructible(T, opt[o].T)
    /\ LET x == OptionalMove(T, opt[o])
       IN /\ opt' = [opt EXCEPT ![c] = x.s, ![o] = SourceAfterMove(opt[o])]
          /\ last' = Call("Optional(Optional&&)", c, o, NoArg, NoRet, x.calls)

\* c.set(args...);
Set(c, a) ==
    /\ UNCHANGED NotOptional
    /\ Alive(c)
    /\ opt[c].nCtor < MaxCtor
    /\ LET x == set(Enter(opt[c]), a)
       IN /\ opt' = [opt EXCEPT ![c] = x.s]
          /\ last' = Call("set(args)", c, "-", a, NoRet, x.calls)

\* c.set(args...);  for a wrapped type whose constructor throws on these
\* arguments (set() is noexcept only if IsNothrowConstructible<Type, ARGS...>):
\* Base::destroy() has run, the new expression is left by the exception and
\* m_isValid = true is not reached; nothing in set() writes m_isValid before.
\* None of the test's types throws; the exception is the driver's input.
SetThrows(c, a) ==
    /\ UNCHANGED NotOptional
    /\ Alive(c)
    /\ opt[c].nDtor < MaxCtor
    /\ LET x == setThrows(Enter(opt[c]), a)
       IN /\ opt' = [opt EXCEPT ![c] = x.s]
          /\ last' = Call("set(args) throws", c, "-", a, NoRet, x.calls)

\* c.set(c.get());  on a valid container.  The argument is a reference into
\* the container's own cell; last.arg records the value held at the call.
SetSelf(c) ==
    /\ UNCHANGED NotOptional
    /\ Alive(c)
    /\ isValid(opt[c])
    /\ opt[c].nCtor < MaxCtor
    /\ \E x \in setSelf(Enter(opt[c])) :
          /\ opt' = [opt EXCEPT ![c] = x.s]
          /\ last' = Call("set(get())", c, c,
                          ObjArg(opt[c].T, opt[c].m_data.m_value, FALSE), NoRet, x.calls)

\* c.set(nou::invalidOpt());
SetInvalidOpt(c) ==
    /\ UNCHANGED NotOptional
    /\ Alive(c)
    /\ LET x == setInvalidOpt(Enter(opt[c]))
       IN /\ opt' = [opt EXCEPT ![c] = x.s]
          /\ last' = Call("set(invalidOpt)", c, "-", NoArg, NoRet, x.calls)

\* c.reset();
Reset(c) ==
    /\ UNCHANGED NotOptional
    /\ Alive(c)
    /\ LET x == reset(Enter(opt[c]))
       IN /\ opt' = [opt EXCEPT ![c] = x.s]
          /\ last' = Call("reset()", c, "-", NoArg, NoRet, x.calls)

\* c = arg;  as a full expression: the returned temporary is destroyed.
\* An assignment has exactly one right-hand side.
Assign(c, a) ==
    /\ UNCHANGED NotOptional
    /\ Alive(c)
    /\ a.k # "none"
    /\ opt[c].nCtor < MaxCtor
    /\ LET r == operatorAssign(Enter(opt[c]), a)
       IN /\ opt' = [opt EXCEPT ![c] = r.x.s]
          /\ last' = Call("operator=", c, "-", a, r.ret, r.x.calls)

\* T t = c.move();
Move(c) ==
    /\ UNCHANGED NotOptional
    /\ Alive(c)
    /\ \E r \in move(Enter(opt[c])) :
          /\ opt' = [opt EXCEPT ![c] = r.x.s]
          /\ last' = Call("move()", c, "-", NoArg, r.ret, r.x.calls)

\* T t = c.moveOr(T(v));
MoveOr(c, v) ==
    /\ UNCHANGED NotOptional
    /\ Alive(c)
    /\ \E r \in moveOr(Enter(opt[c]), v) :
          /\ opt' = [opt EXCEPT ![c] = r.x.s]
          /\ last' = Call("moveOr(obj)", c, "-", ObjArg(opt[c].T, v, TRUE), r.ret,
                          r.x.calls)

\* bool b = c.isValid();
IsValid(c) ==
    /\ UNCHANGED NotOptional
    /\ Alive(c)
    /\ opt' = opt
    /\ last' = Call("isValid()", c, "-", NoArg, BoolRet(isValid(opt[c])), <<>>)

\* T &r = c.get();
Get(c) ==
    /\ UNCHANGED NotOptional
    /\ Alive(c)
    /\ \E r \in getRef(opt[c]) :
          /\ opt' = opt
          /\ last' = Call("get()", c, "-", NoArg, r, <<>>)

\* T &r = c.getOr(obj);  for an lvalue obj whose m_value is v
GetOr(c, v) ==
    /\ UNCHANGED NotOptional
    /\ Alive(c)
    /\ \E r \in getOr(opt[c], v) :
          /\ opt' = opt
          /\ last' = Call("getOr(obj)", c, "-", ObjArg(opt[c].T, v, FALSE), r, <<>>)

\* T *p = c.ptr();
Ptr(c) ==
    /\ UNCHANGED NotOptional
    /\ Alive(c)
    /\ opt' = opt
    /\ last' = Call("ptr()", c, "-", NoArg, ptr(opt[c]), <<>>)

\* T &r = *c;
OperatorStar(c) ==
    /\ UNCHANGED NotOptional
    /\ Alive(c)
    /\ \E r \in operatorStar(opt[c]) :
          /\ opt' = opt
          /\ last' = Call("operator*", c, "-", NoArg, r, <<>>)

\* T *p = c.operator->();
OperatorArrow(c) ==
    /\ UNCHANGED NotOptional
    /\ Alive(c)
    /\ opt' = opt
    /\ last' = Call("operator->()", c, "-", NoArg, operatorArrow(opt[c]), <<>>)

\* const T *p = k.operator->();  for const nou::Optional<T> &k = c
OperatorArrowConst(c) ==
    /\ UNCHANGED NotOptional
    /\ Alive(c)
    /\ opt' = opt
    /\ last' = Call("operator->() const", c, "-", NoArg, operatorArrowConst(opt[c]), <<>>)

\* c goes out of scope.
Destruct(c) ==
    /\ UNCHANGED NotOptional
    /\ Alive(c)
    /\ LET x == destructor(Enter(opt[c]))
       IN /\ opt' = [opt EXCEPT ![c] = x.s]
          /\ last' = Call("~Optional()", c, "-", NoArg, NoRet, x.calls)

\* ----------------------------------------------------------------- process
\* The process the components run in: running, ended by ::abort(), ended by
\* std::exit(code), or stopped at a breakpoint instruction.
Running == [st |-> "running", code |-> 0]
Aborted == [st |-> "aborted", code |-> 0]
Exited(code) == [st |-> "exited", code |-> code]
Trapped == [st |-> "trapped", code |-> 0]

\* ----------------------------------------------------------------- NotNull
\* The driver's memory, as in test/notnull.wt.cpp: an array i3 of ArrayLen
\* elements.  Address 0 is nullptr, the elements are at 1..ArrayLen, and
\* ArrayLen + 1 is the address one past the end of the array.
ArrayLen == 3
\* Largest offset the driver adds to or subtracts from a NotNull.
MaxOffset == 2

nullptr == 0
Addresses == 0..(ArrayLen + 1)
Offsets == (0 - MaxOffset)..MaxOffset

\* The built-in p + k on Type: defined when k is 0 or when the result stays
\* within the array or one past its end; otherwise the behaviour is undefined
\* and the result may be any address, nullptr included.
PtrAdd(p, k) ==
    IF k = 0 \/ (p # nullptr /\ p + k >= 1 /\ p + k <= ArrayLen + 1)
    THEN {p + k}
    ELSE Addresses

\* A NotNull the driver has not declared yet.
NoNotNull == [life |-> "none", m_ptr |-> nullptr]

\* What a call on a NotNull returns: nothing, a boolean b, a pointer p, a
\* reference to the instance or a new instance (p: its wrapped pointer).
NNVoid == [k |-> "void", p |-> nullptr, b |-> FALSE]
NNBoolean(b) == [k |-> "boolean", p |-> nullptr, b |-> b]
NNPointer(p) == [k |-> "Type", p |-> p, b |-> FALSE]
NNSelf(n) == [k |-> "NotNull&", p |-> n.m_ptr, b |-> FALSE]
NNCopy(n) == [k |-> "NotNull", p |-> n.m_ptr, b |-> FALSE]

\* The record of a call on the NotNull; arg is the pointer or offset passed.
NNCall(op, arg, ret) == [op |-> op, arg |-> arg, ret |-> ret]

\* A checkNull() that never aborts.
checkNull_Never(n, pr) == pr

\* NotNull::checkNull() const: if(!m_ptr) ::abort().  The process afterwards.
checkNull(n, pr) == IF n.m_ptr = nullptr THEN Aborted ELSE pr

\* constexpr NotNull() = default: m_ptr is default-initialized.  For a raw
\* pointer type that is nullptr under value- or static initialization
\* (NotNull<T> n{}) and an indeterminate value otherwise.
NotNullDefault == {[life |-> "alive", m_ptr |-> p] : p \in Addresses}

\* NotNull::NotNull(Type ptr) : m_ptr(ptr), before the body runs checkNull().
NotNullFromPtr(pointer) == [life |-> "alive", m_ptr |-> pointer]

\* NotNull::rawPtr(): return m_ptr.
rawPtr(n) == n.m_ptr

\* NotNull::operator boolean() const: return true.
operatorBoolean(n) == TRUE

\* NotNull::operator!() const: return false.
operatorNot(n) == FALSE

\* NotNull::operator&&(ConstTypeRef other) const: return other (the pointer
\* converted to boolean).
operatorAnd(n, other) == other # nullptr

\* NotNull::operator||(ConstTypeRef other) const: return true.
operatorOr(n, other) == TRUE

NNFresh == notNull.life = "none" /\ process = Running
NNAlive == notNull.life = "alive" /\ process = Running

\* nou::NotNull<nou::int32 *> n;  or  nou::NotNull<nou::int32 *> n{};
NNDefaultConstruct ==
    /\ NNFresh
    /\ UNCHANGED <<opt, last, AssertionSettings, lastAssert>>
    /\ \E n \in NotNullDefault :
          /\ notNull' = n
          /\ process' = process
          /\ lastNN' = NNCall("NotNull()", nullptr, NNVoid)

\* nou::NotNull<nou::int32 *> n = ptr;  for a pointer variable ptr
NNConstruct(pointer) ==
    /\ NNFresh
    /\ UNCHANGED <<opt, last, AssertionSettings, lastAssert>>
    /\ notNull' = NotNullFromPtr(pointer)
    /\ process' = checkNull(NotNullFromPtr(pointer), process)
    /\ lastNN' = NNCall("NotNull(Type)", pointer, NNVoid)

\* n = ptr;  NotNull::operator=(Type ptr): m_ptr = ptr; checkNull(); return *this.
NNAssign(pointer) ==
    /\ NNAlive
    /\ UNCHANGED <<opt, last, AssertionSettings, lastAssert>>
    /\ notNull' = [notNull EXCEPT !.m_ptr = pointer]
    /\ process' = checkNull([notNull EXCEPT !.m_ptr = pointer], process)
    /\ lastNN' = NNCall("operator=", pointer, NNSelf([notNull EXCEPT !.m_ptr = pointer]))

\* n += offset;  NotNull::operator+=: m_ptr += offset; checkNull(); return *this.
NNAddAssign(offset) ==
    /\ NNAlive
    /\ UNCHANGED <<opt, last, AssertionSettings, lastAssert>>
    /\ \E p \in PtrAdd(notNull.m_ptr, offset) :
          /\ notNull' = [notNull EXCEPT !.m_ptr = p]
          /\ process' = checkNull([notNull EXCEPT !.m_ptr = p], process)
          /\ lastNN' = NNCall("operator+=", offset, NNSelf([notNull EXCEPT !.m_ptr = p]))

\* n -= offset;  NotNull::operator-=: m_ptr -= offset; checkNull(); return *this.
NNSubAssign(offset) ==
    /\ NNAlive
    /\ UNCHANGED <<opt, last, AssertionSettings, lastAssert>>
    /\ \E p \in PtrAdd(notNull.m_ptr, 0 - offset) :
          /\ notNull' = [notNull EXCEPT !.m_ptr = p]
          /\ process' = checkNull([notNull EXCEPT !.m_ptr = p], process)
          /\ lastNN' = NNCall("operator-=", offset, NNSelf([notNull EXCEPT !.m_ptr = p]))

\* ++n;  NotNull::operator++(): ++m_ptr; return *this.
NNPreIncrement ==
    /\ NNAlive
    /\ UNCHANGED <<opt, last, AssertionSettings, lastAssert, process>>
    /\ \E p \in PtrAdd(notNull.m_ptr, 1) :
          /\ notNull' = [notNull EXCEPT !.m_ptr = p]
          /\ lastNN' = NNCall("++operator", 1, NNSelf([notNull EXCEPT !.m_ptr = p]))

\* --n;  NotNull::operator--(): --m_ptr; return *this.
NNPreDecrement ==
    /\ NNAlive
    /\ UNCHANGED <<opt, last, AssertionSettings, lastAssert, process>>
    /\ \E p \in PtrAdd(notNull.m_ptr, 0 - 1) :
          /\ notNull' = [notNull EXCEPT !.m_ptr = p]
          /\ lastNN' = NNCall("--operator", 1, NNSelf([notNull EXCEPT !.m_ptr = p]))

\* n++;  NotNull::operator++(int): NotNull ret = *this; ++m_ptr; return ret.
NNPostIncrement ==
    /\ NNAlive
    /\ UNCHANGED <<opt, last, AssertionSettings, lastAssert, process>>
    /\ \E p \in PtrAdd(notNull.m_ptr, 1) :
          /\ notNull' = [notNull EXCEPT !.m_ptr = p]
          /\ lastNN' = NNCall("operator++", 1, NNCopy(notNull))

\* n--;  NotNull::operator--(int): NotNull ret = *this; --m_ptr; return ret.
NNPostDecrement ==
    /\ NNAlive
    /\ UNCHANGED <<opt, last, AssertionSettings, lastAssert, process>>
    /\ \E p \in PtrAdd(notNull.m_ptr, 0 - 1) :
          /\ notNull' = [notNull EXCEPT !.m_ptr = p]
          /\ lastNN' = NNCall("operator--", 1, NNCopy(notNull))

\* n.rawPtr()
NNRawPtr ==
    /\ NNAlive
    /\ UNCHANGED <<opt, last, AssertionSettings, lastAssert, process, notNull>>
    /\ lastNN' = NNCall("rawPtr()", nullptr, NNPointer(rawPtr(notNull)))

\* static_cast<nou::boolean>(n)
NNBool ==
    /\ NNAlive
    /\ UNCHANGED <<opt, last, AssertionSettings, lastAssert, process, notNull>>
    /\ lastNN' = NNCall("operator boolean", nullptr, NNBoolean(operatorBoolean(notNull)))

\* !n
NNNot ==
    /\ NNAlive
    /\ UNCHANGED <<opt, last, AssertionSettings, lastAssert, process, notNull>>
    /\ lastNN' = NNCall("operator!", nullptr, NNBoolean(operatorNot(notNull)))

\* n && ptr
NNAnd(pointer) ==
    /\ NNAlive
    /\ UNCHANGED <<opt, last, AssertionSettings, lastAssert, process, notNull>>
    /\ lastNN' = NNCall("operator&&", pointer, NNBoolean(operatorAnd(notNull, pointer)))

\* n || ptr
NNOr(pointer) ==
    /\ NNAlive
    /\ UNCHANGED <<opt, last, AssertionSettings, lastAssert, process, notNull>>
    /\ lastNN' = NNCall("operator||", pointer, NNBoolean(operatorOr(notNull, pointer)))

NotNullNext ==
    \/ NNDefaultConstruct
    \/ \E pointer \in Addresses : NNConstruct(pointer)
    \/ \E pointer \in Addresses : NNAssign(pointer)
    \/ \E offset \in Offsets : NNAddAssign(offset)
    \/ \E offset \in Offsets : NNSubAssign(offset)
    \/ NNPreIncrement
    \/ NNPreDecrement
    \/ NNPostIncrement
    \/ NNPostDecrement
    \/ NNRawPtr
    \/ NNBool
    \/ NNNot
    \/ \E pointer \in Addresses : NNAnd(pointer)
    \/ \E pointer \in Addresses : NNOr(pointer)

\* ------------------------------------------------------------------ assert
\* The values the driver gives AssertionSettings::exitCode: the default -1,
\* the 0 of test/assert.wt.cpp and the 5 of examples/assert.ex.cpp.
ExitCodes == {0 - 1, 0, 5}

\* The code assertCallbackSucceed exits with: NOU_TEST_IS_TRUE(false) calls
\* exit(__LINE__) in line 27 of test/assert.wt.cpp.
CallbackExitCode == 27

\* The functions the driver stores in AssertionSettings::callbackOnFail:
\*   nullptr                 no callback
\*   assertCallback          examples/assert.ex.cpp: prints and returns
\*   assertCallbackSucceed   test/assert.wt.cpp: calls exit(__LINE__)
\*   setsExitCode            a callback that writes AssertionSettings::exitCode
\*   setsExitOnFail          a callback that sets AssertionSettings::exitOnFail
\*   clearsExitOnFail        a callback that clears AssertionSettings::exitOnFail
Callbacks ==
    {"nullptr", "assertCallback", "assertCallbackSucceed", "setsExitCode",
     "setsExitOnFail", "clearsExitOnFail"}

\* The arguments NOU_ASSERT hands to assertImpl besides the condition: the
\* failing NOU_ASSERT(false) of the test and the NOU_ASSERT(i >= 10) of the
\* example.
AssertArgs ==
    {[msg |-> "false", fnName |-> "main", line |-> 56, file |-> "assert.wt.cpp"],
     [msg |-> "i >= 10", fnName |-> "someFunction", line |-> 29, file |-> "assert.ex.cpp"]}

NoAssertArgs == [msg |-> "-", fnName |-> "-", line |-> 0, file |-> "-"]

\* An exitOnFail that is true out of the box.
DefaultSettings_ExitOnFail ==
    [breakOnFail |-> FALSE, printOnFail |-> TRUE, exitOnFail |-> TRUE,
     exitCode |-> 0 - 1, callbackOnFail |-> "nullptr"]

\* The initializers of the static members of AssertionSettings.
DefaultSettings ==
    [breakOnFail |-> FALSE, printOnFail |-> TRUE, exitOnFail |-> FALSE,
     exitCode |-> 0 - 1, callbackOnFail |-> "nullptr"]

\* What a failing assertion does, in the order it does it:
\*   print      std::cout << msg << "\n"
\*   callback   AssertionSettings::callbackOnFail(msg, fnName, line, file)
\*   break      debugbreak()
\*   exit       std::exit(code)
AssertEvent(ev, cb, a, code) ==
    [ev |-> ev, cb |-> cb, msg |-> a.msg, fnName |-> a.fnName, line |-> a.line,
     file |-> a.file, code |-> code]

\* A run of assertImpl so far: the settings, the process and the events.
AssertRun(S, pr, events) == [settings |-> S, process |-> pr, events |-> events]

\* if(AssertionSettings::printOnFail) std::cout << msg << "\n".
PrintStep(r, a) ==
    IF r.settings.printOnFail
    THEN [r EXCEPT !.events = Append(@, AssertEvent("print", "-", a, 0))]
    ELSE r

\* The body of the callback cb: what it does to the settings and the process.
RunCallback(cb, r) ==
    CASE cb = "assertCallbackSucceed" -> {[r EXCEPT !.process = Exited(CallbackExitCode)]}
      [] cb = "setsExitCode" -> {[r EXCEPT !.settings.exitCode = c] : c \in ExitCodes}
      [] cb = "setsExitOnFail" -> {[r EXCEPT !.settings.exitOnFail = TRUE]}
      [] cb = "clearsExitOnFail" -> {[r EXCEPT !.settings.exitOnFail = FALSE]}
      [] OTHER -> {r}

\* if(AssertionSettings::callbackOnFail)
\*     AssertionSettings::callbackOnFail(msg, fnName, line, file).
CallbackStep(r, a) ==
    IF r.process = Running /\ r.settings.callbackOnFail # "nullptr"
    THEN RunCallback(r.settings.callbackOnFail,
                     [r EXCEPT !.events =
                         Append(@, AssertEvent("callback", r.settings.callbackOnFail, a, 0))])
    ELSE {r}

\* internal::debugbreak(): __debugbreak() when compiled with MSVC, which
\* returns under a debugger and ends the process without one; empty for the
\* other compilers.
debugbreak(r) == {r, [r EXCEPT !.process = Trapped]}

\* if(AssertionSettings::breakOnFail) debugbreak().
BreakStep(r, a) ==
    IF r.process = Running /\ r.settings.breakOnFail
    THEN debugbreak([r EXCEPT !.events = Append(@, AssertEvent("break", "-", a, 0))])
    ELSE {r}

\* An exit that uses the exit code and the flag the call started with.
ExitStep_Stale(r, a, S) ==
    IF r.process = Running /\ S.exitOnFail
    THEN [r EXCEPT !.events = Append(@, AssertEvent("exit", "-", a, S.exitCode)),
                   !.process = Exited(S.exitCode)]
    ELSE r

\* if(AssertionSettings::exitOnFail) std::exit(AssertionSettings::exitCode).
\* S: the settings when assertImpl was entered (not read here).
ExitStep(r, a, S) ==
    IF r.process = Running /\ r.settings.exitOnFail
    THEN [r EXCEPT !.events =
              Append(@, AssertEvent("exit", "-", a, r.settings.exitCode)),
                   !.process = Exited(r.settings.exitCode)]
    ELSE r

\* An assertImpl that exits before it calls the callback.
assertImpl_ExitBeforeCallback(b, a, S) ==
    IF b
    THEN {AssertRun(S, Running, <<>>)}
    ELSE UNION {BreakStep(r2, a) :
                  r2 \in CallbackStep(ExitStep(PrintStep(AssertRun(S, Running, <<>>), a),
                                               a, S), a)}

\* An assertImpl without its test of b.
assertImpl_IgnoresCondition(b, a, S) ==
    {ExitStep(r3, a, S) :
        r3 \in UNION {BreakStep(r2, a) :
                        r2 \in CallbackStep(PrintStep(AssertRun(S, Running, <<>>), a), a)}}

\* internal::assertImpl(b, msg, fnName, line, file): the runs it can make
\* from the settings S.
assertImpl(b, a, S) ==
    IF b
    THEN {AssertRun(S, Running, <<>>)}
    ELSE {ExitStep(r3, a, S) :
            r3 \in UNION {BreakStep(r2, a) :
                            r2 \in CallbackStep(PrintStep(AssertRun(S, Running, <<>>), a), a)}}

\* The record of the last statement of the assert driver: a write of a
\* setting, or a call of assertImpl with its condition, its arguments, the
\* settings before it and the events it produced.
AssertCall(op, b, a, before, events) ==
    [op |-> op, b |-> b, args |-> a, before |-> before, events |-> events]

NoAssertCall == AssertCall("-", TRUE, NoAssertArgs, DefaultSettings, <<>>)

\* nou::AssertionSettings::printOnFail = v;
SetPrintOnFail(v) ==
    /\ process = Running
    /\ UNCHANGED <<opt, last, notNull, lastNN, process>>
    /\ AssertionSettings' = [AssertionSettings EXCEPT !.printOnFail = v]
    /\ lastAssert' = AssertCall("printOnFail =", TRUE, NoAssertArgs, AssertionSettings, <<>>)

\* nou::AssertionSettings::callbackOnFail = cb;
SetCallbackOnFail(cb) ==
    /\ process = Running
    /\ UNCHANGED <<opt, last, notNull, lastNN, process>>
    /\ AssertionSettings' = [AssertionSettings EXCEPT !.callbackOnFail = cb]
    /\ lastAssert' = AssertCall("callbackOnFail =", TRUE, NoAssertArgs, AssertionSettings, <<>>)

\* nou::AssertionSettings::breakOnFail = v;
SetBreakOnFail(v) ==
    /\ process = Running
    /\ UNCHANGED <<opt, last, notNull, lastNN, process>>
    /\ AssertionSettings' = [AssertionSettings EXCEPT !.breakOnFail = v]
    /\ lastAssert' = AssertCall("breakOnFail =", TRUE, NoAssertArgs, AssertionSettings, <<>>)

\* nou::AssertionSettings::exitOnFail = v;
SetExitOnFail(v) ==
    /\ process = Running
    /\ UNCHANGED <<opt, last, notNull, lastNN, process>>
    /\ AssertionSettings' = [AssertionSettings EXCEPT !.exitOnFail = v]
    /\ lastAssert' = AssertCall("exitOnFail =", TRUE, NoAssertArgs, AssertionSettings, <<>>)

\* nou::AssertionSettings::exitCode = c;
SetExitCode(c) ==
    /\ process = Running
    /\ UNCHANGED <<opt, last, notNull, lastNN, process>>
    /\ AssertionSettings' = [AssertionSettings EXCEPT !.exitCode = c]
    /\ lastAssert' = AssertCall("exitCode =", TRUE, NoAssertArgs, AssertionSettings, <<>>)

\* NOU_ASSERT(b);  a call of internal::assertImpl(b, msg, fnName, line, file)
AssertStep(b, a) ==
    /\ process = Running
    /\ UNCHANGED <<opt, last, notNull, lastNN>>
    /\ \E r \in assertImpl(b, a, AssertionSettings) :
          /\ AssertionSettings' = r.settings
          /\ process' = r.process
          /\ lastAssert' = AssertCall("assertImpl", b, a, AssertionSettings, r.events)

AssertNext ==
    \/ \E v \in BOOLEAN : SetPrintOnFail(v)
    \/ \E cb \in Callbacks : SetCallbackOnFail(cb)
    \/ \E v \in BOOLEAN : SetBreakOnFail(v)
    \/ \E v \in BOOLEAN : SetExitOnFail(v)
    \/ \E c \in ExitCodes : SetExitCode(c)
    \/ \E b \in BOOLEAN, a \in AssertArgs : AssertStep(b, a)

\* ----------------------------------------------------------- specifications
Init ==
    /\ opt = [c \in Slots |-> NoOptional]
    /\ last = [op |-> "-", self |-> "-", other |-> "-", arg |-> NoArg, ret |-> NoRet,
               calls |-> <<>>, after |-> "-"]
    /\ notNull = NoNotNull
    /\ lastNN = NNCall("-", nullptr, NNVoid)
    /\ AssertionSettings = DefaultSettings
    /\ lastAssert = NoAssertCall
    /\ process = Running

Next ==
    \/ \E c \in Slots, T \in Types : DefaultConstruct(c, T)
    \/ \E c \in Slots, T \in Types : \E a \in Args(T) : ValueConstruct(c, T, a)
    \/ \E c \in Slots, T \in Types : InvalidOptConstruct(c, T)
    \/ \E c \in Slots, T \in Types : \E o \in Slots : CopyConstruct(c, T, o)
    \/ \E c \in Slots, T \in Types : \E o \in Slots : MoveConstruct(c, T, o)
    \/ \E c \in Operated : \E a \in Args(opt[c].T) : Set(c, a)
    \/ \E c \in Operated : SetInvalidOpt(c)
    \/ \E c \in Operated : Reset(c)
    \/ \E c \in Operated : \E a \in Args(opt[c].T) : Assign(c, a)
    \/ \E c \in Operated : Move(c)
    \/ \E c \in Operated, v \in Values : MoveOr(c, v)
    \/ \E c \in Operated : IsValid(c)
    \/ \E c \in Operated : Get(c)
    \/ \E c \in Operated, v \in Values : GetOr(c, v)
    \/ \E c \in Operated : Ptr(c)
    \/ \E c \in Operated : OperatorStar(c)
    \/ \E c \in Operated : OperatorArrow(c)
    \/ \E c \in Operated : OperatorArrowConst(c)
    \/ \E c \in Slots : Destruct(c)

Spec == Init /\ [][Next]_vars

\* The driver of Spec, which in addition calls set() with a constructor that
\* throws and set() with the container's own value.
SetNext ==
    \/ Next
    \/ \E c \in Operated : \E a \in Args(opt[c].T) : SetThrows(c, a)
    \/ \E c \in Operated : SetSelf(c)

SpecSet == Init /\ [][SetNext]_vars

\* The driver of test/notnull.wt.cpp.
SpecNotNull == Init /\ [][NotNullNext]_vars

\* The driver of test/assert.wt.cpp and examples/assert.ex.cpp.
SpecAssert == Init /\ [][AssertNext]_vars

\* ------------------------------------------------------------------ claims
\* The container the last call ran on, and the one it took as its source.
Self == opt[last.self]
Other == opt[last.other]

C2_DefaultEmpty ==
    last.op = "Optional()" =>
        /\ ~isValid(Self)
        /\ last.calls = <<>>
        /\ Self.nCtor = 0 /\ Self.nDtor = 0 /\ Self.m_data.k = "uninit"

\* A default-constructed Optional<Test1>, the counting type of the test.
C2_Witness == last.op = "Optional()" /\ Self.T = "Test1" /\ Self.life = "alive"

\* C3: an Optional<T> constructed from nou::invalidOpt() is not valid, and
\* its construction calls no constructor and no destructor of a wrapped type.
C3_InvalidOptEmpty ==
    last.op = "Optional(invalidOpt)" =>
        /\ ~isValid(Self)
        /\ last.calls = <<>>
        /\ Self.nCtor = 0 /\ Self.nDtor = 0 /\ Self.m_data.k = "uninit"

\* An Optional<Test1> constructed from invalidOpt().
C3_Witness == last.op = "Optional(invalidOpt)" /\ Self.T = "Test1" /\ Self.life = "alive"

\* C4, as stated: for every pack args from which T is constructible,
\* Optional<T>(args...) is valid and get() refers to a live object whose
\* value is that of T(args...).  The empty pack refutes it.
C4_Original ==
    last.op = "Optional(args)" =>
        /\ isValid(Self)
        /\ get(Self).k = "obj"
        /\ get(Self).m_value = Construct(Self.T, last.arg).m_value

\* C4, amended: for every pack args that is not empty and from which T is
\* constructible, Optional<T>(args...) is valid and get() refers to a live
\* object whose value is that of T(args...); Optional<T>() with the empty
\* pack is the default constructor and gives a container that is not valid.
C4_ValueRoundTrip ==
    /\ (last.op = "Optional(args)" /\ last.arg.k # "none") =>
          /\ isValid(Self)
          /\ get(Self).k = "obj"
          /\ get(Self).m_value = Construct(Self.T, last.arg).m_value
    /\ (last.op = "Optional(args)" /\ last.arg.k = "none") =>
          /\ ~isValid(Self)
          /\ last.calls = <<>>

\* Optional<TriviallyDestructible>(TriviallyDestructible2(v)) with v # 0: the
\* converting constructor does not keep the value.
C4_Witness ==
    /\ last.op = "Optional(args)" /\ Self.T = "TriviallyDestructible"
    /\ last.arg.k = "obj" /\ last.arg.U = "TriviallyDestructible2" /\ last.arg.v # 0
    /\ get(Self).m_value = 0

\* C5: after set(args...), on an empty or a holding container, isValid() is
\* true and get() refers to a live object with the value of T(args...); a
\* reset() that follows makes isValid() false.
C5_SetThenReset ==
    /\ last.op = "set(args)" =>
          /\ isValid(Self)
          /\ get(Self).k = "obj"
          /\ get(Self).m_value = Construct(Self.T, last.arg).m_value
    /\ (last.op = "reset()" /\ last.after = "set(args)") => ~isValid(Self)

\* reset() right after a set(args...) that replaced an earlier object of an
\* Optional<Test2>.
C5_Witness ==
    /\ last.op = "reset()" /\ last.after = "set(args)"
    /\ Self.T = "Test2" /\ ~isValid(Self)
    /\ Self.nCtor = 2 /\ Self.nDtor = 2

\* C6: set(b) right after set(a), for a T with a destructor to run (Test1,
\* Test2): the call destroys the object built by set(a), once, and then
\* constructs the new object; it destroys nothing else, every earlier object
\* of the cell has been destroyed once, and the value held is that of T(b).
C6_SetReplaces ==
    (last.op = "set(args)" /\ last.after = "set(args)" /\ ~TRIV_DEST(Self.T)) =>
        /\ last.calls = << DtorCall(Self.T, "cell", get(Self).id - 1),
                           CtorCall(Self.T, "cell", get(Self).id,
                                    Construct(Self.T, last.arg).by) >>
        /\ get(Self).id = Self.nCtor
        /\ Self.nDtor = Self.nCtor - 1
        /\ get(Self).k = "obj"
        /\ get(Self).m_value = Construct(Self.T, last.arg).m_value

\* set(a); set(b) on a default-constructed Optional<Test1>, b a value # 0.
C6_Witness ==
    /\ last.op = "set(args)" /\ last.after = "set(args)"
    /\ Self.T = "Test1" /\ Self.nCtor = 2 /\ Self.nDtor = 1
    /\ last.arg.k = "val" /\ last.arg.v # 0 /\ get(Self).m_value = last.arg.v

\* C7: reset() on a container that is not valid changes nothing and calls no
\* destructor; reset() right after set(args...) calls the destructor of the
\* held object (of a T with a destructor to run) once and empties the
\* container; a second reset() in a row calls no destructor and leaves the
\* container empty and unchanged.
C7_ResetIdempotent ==
    [][ /\ (last'.op = "reset()" /\ ~isValid(opt[last'.self])) =>
              (opt' = opt /\ last'.calls = <<>>)
        /\ (last'.op = "reset()" /\ last'.after = "set(args)"
                /\ ~TRIV_DEST(opt[last'.self].T)) =>
              /\ last'.calls = << DtorCall(opt[last'.self].T, "cell",
                                          get(opt[last'.self]).id) >>
              /\ ~isValid(opt'[last'.self])
        /\ (last'.op = "reset()" /\ last'.after = "reset()") =>
              /\ last'.calls = <<>>
              /\ ~isValid(opt'[last'.self])
              /\ opt' = opt
      ]_vars

\* The second reset() in a row on an Optional<Test1> that held an object.
C7_Witness ==
    /\ last.op = "reset()" /\ last.after = "reset()" /\ last.calls = <<>>
    /\ Self.T = "Test1" /\ ~isValid(Self)
    /\ Self.nCtor >= 1 /\ Self.nDtor = Self.nCtor

\* C8: set(invalidOpt()) and reset() do the same: from every state both
\* leave isValid() false, both call the destructor of the held object once
\* when the container was valid (for a T with a destructor to run) and call
\* nothing when it was not, and set(invalidOpt()) leaves the container as
\* reset() would.
C8_SetInvalidOptIsReset ==
    [][ /\ last'.op \in {"reset()", "set(invalidOpt)"} =>
              /\ ~isValid(opt'[last'.self])
              /\ last'.calls =
                    IF isValid(opt[last'.self]) /\ ~TRIV_DEST(opt[last'.self].T)
                    THEN << DtorCall(opt[last'.self].T, "cell", get(opt[last'.self]).id) >>
                    ELSE <<>>
        /\ last'.op = "set(invalidOpt)" =>
              /\ opt'[last'.self] = reset(Enter(opt[last'.self])).s
              /\ last'.calls = reset(Enter(opt[last'.self])).calls
      ]_vars

\* set(invalidOpt()) on a holding Optional<Test2>: one destructor call.
C8_Witness ==
    /\ last.op = "set(invalidOpt)" /\ Self.T = "Test2" /\ ~isValid(Self)
    /\ Len(last.calls) = 1 /\ last.calls[1].ev = "dtor"

\* The two constructors from another Optional.
CopyOrMove == {"Optional(const Optional&)", "Optional(Optional&&)"}

\* C9: an Optional<T> copy- or move-constructed from a valid Optional<U> is
\* valid, holds a live object with the value of T constructed from the
\* source's object, and exactly one T was constructed for it, in its cell.
C9_ConstructFromHolding ==
    [][ (last'.op \in CopyOrMove /\ isValid(opt[last'.other])) =>
            /\ isValid(opt'[last'.self])
            /\ get(opt'[last'.self]).k = "obj"
            /\ get(opt'[last'.self]).m_value =
                  Construct(opt'[last'.self].T,
                            ObjArg(opt[last'.other].T, get(opt[last'.other]).m_value,
                                   FALSE)).m_value
            /\ opt'[last'.self].nCtor = 1 /\ opt'[last'.self].nDtor = 0
            /\ Len(last'.calls) = 1
            /\ last'.calls[1].ev = "ctor" /\ last'.calls[1].at = "cell"
            /\ last'.calls[1].T = opt'[last'.self].T
      ]_vars

\* Optional<TriviallyDestructible> move-constructed from a holding
\* Optional<TriviallyDestructible2> with a value # 0: T(U) stores 0.
C9_Witness ==
    /\ last.op = "Optional(Optional&&)"
    /\ Self.T = "TriviallyDestructible" /\ Other.T = "TriviallyDestructible2"
    /\ isValid(Other) /\ get(Other).m_value # 0
    /\ isValid(Self) /\ get(Self).m_value = 0

\* C10: copy or move construction from an Optional<U> leaves the source's
\* validity flag as it was: a valid source stays valid, also when moved
\* from, and an invalid one stays invalid.
C10_SourceValidityKept ==
    [][ last'.op \in CopyOrMove =>
            /\ isValid(opt'[last'.other]) = isValid(opt[last'.other])
            /\ opt'[last'.other].life = opt[last'.other].life
      ]_vars

\* An Optional<Test2> move-constructed from an Optional<Test1> that is still
\* valid afterwards.
C10_Witness ==
    /\ last.op = "Optional(Optional&&)"
    /\ Other.T = "Test1" /\ isValid(Other) /\ Other.life = "alive"
    /\ Self.T = "Test2" /\ isValid(Self)

\* C11: an Optional<T> move-constructed from a valid Optional<U> builds its
\* T from the source's object as an rvalue: exactly one constructor of T
\* runs, and it is not the copy constructor (for U = T it is T(T &&)).
C11_MoveConstructMoves ==
    (last.op = "Optional(Optional&&)" /\ isValid(Other)) =>
        /\ Len(last.calls) = 1
        /\ last.calls[1].ev = "ctor"
        /\ last.calls[1].by # "copy"

\* C12: an Optional<T> copy- or move-constructed from an Optional<U> that is
\* not valid (U = T or not) is not valid, and the construction calls no
\* constructor and no destructor of T or of U: nothing is built in the new
\* cell and the source is left as it was.
C12_ConstructFromEmpty ==
    [][ (last'.op \in CopyOrMove /\ ~isValid(opt[last'.other])) =>
            /\ ~isValid(opt'[last'.self])
            /\ last'.calls = <<>>
            /\ opt'[last'.self].nCtor = 0 /\ opt'[last'.self].nDtor = 0
            /\ get(opt'[last'.self]).k = "uninit"
            /\ opt'[last'.other] = opt[last'.other]
      ]_vars

\* An Optional<Test2> copy-constructed from an Optional<Test1> that held an
\* object and was emptied again.
C12_Witness ==
    /\ last.op = "Optional(const Optional&)"
    /\ Self.T = "Test2" /\ Other.T = "Test1"
    /\ Other.life = "alive" /\ ~isValid(Other) /\ Other.nCtor = 1 /\ Other.nDtor = 1
    /\ Self.life = "alive" /\ ~isValid(Self) /\ Self.nCtor = 0

\* The calls that destroy the object held by a valid container.
Destroying == {"reset()", "set(invalidOpt)", "set(args)", "operator=", "~Optional()"}

\* The destructor calls among cs that ran on an object of the storage cell.
CellDtors(cs) == {i \in Dtors(cs) : cs[i].at = "cell"}

\* C13: move() on a valid Optional<T> returns a T built by T's move
\* constructor from the held object, with the value held before the call,
\* and leaves the container as it was: still valid, still owning that one
\* object.  The reset(), set() or destruction that comes next then runs the
\* destructor of that object exactly once (for a T with a destructor to run),
\* and a destroyed container has seen as many destructions as constructions.
C13_MoveKeepsValid ==
    [][ /\ (last'.op = "move()" /\ isValid(opt[last'.self])) =>
              /\ last'.ret.k = "T" /\ last'.ret.by = "move"
              /\ last'.ret.v = get(opt[last'.self]).m_value
              /\ last'.calls = << CtorCall(opt[last'.self].T, "ret", 0, "move") >>
              /\ opt' = opt
              /\ isValid(opt'[last'.self]) /\ get(opt'[last'.self]).k = "obj"
        /\ (last'.op \in Destroying /\ last'.after = "move()"
                /\ isValid(opt[last'.self]) /\ ~TRIV_DEST(opt[last'.self].T)) =>
              /\ Cardinality(CellDtors(last'.calls)) = 1
              /\ \A i \in CellDtors(last'.calls) :
                    last'.calls[i].id = get(opt[last'.self]).id
              /\ opt'[last'.self].nDtor = opt[last'.self].nDtor + 1
        /\ (last'.op = "~Optional()" /\ ~TRIV_DEST(opt[last'.self].T)) =>
              opt'[last'.self].nDtor = opt'[last'.self].nCtor
      ]_vars

\* An Optional<Test1> destroyed right after a move() out of it: the
\* moved-from object is destroyed, once.
C13_Witness ==
    /\ last.op = "~Optional()" /\ last.after = "move()"
    /\ Self.T = "Test1" /\ Self.life = "dead" /\ isValid(Self)
    /\ last.calls = << DtorCall("Test1", "cell", Self.nCtor) >>
    /\ Self.nDtor = Self.nCtor

\* C14: moveOr(obj) returns a T move-constructed from the held object when
\* the container is valid and from obj when it is not; either way the
\* container is left as it was, so its validity flag does not change.
C14_MoveOrSelects ==
    [][ last'.op = "moveOr(obj)" =>
            /\ last'.ret.k = "T" /\ last'.ret.by = "move"
            /\ last'.ret.v = IF isValid(opt[last'.self])
                             THEN get(opt[last'.self]).m_value
                             ELSE last'.arg.v
            /\ isValid(opt'[last'.self]) = isValid(opt[last'.self])
            /\ opt' = opt
      ]_vars

\* moveOr(Test2{0}) on an Optional<Test2> that holds the value 1 returns 1.
C14_Witness ==
    /\ last.op = "moveOr(obj)" /\ Self.T = "Test2"
    /\ isValid(Self) /\ get(Self).m_value = 1
    /\ last.arg.v = 0 /\ last.ret.v = 1

\* C15: getOr(obj) returns a reference to the held object (the one get()
\* refers to) when the container is valid, and a reference to obj itself when
\* it is not: then the result does not depend on the storage cell, whatever
\* the cell holds (nothing yet, or a destroyed object).  The call constructs
\* and destroys nothing.
C15_GetOrSelects ==
    last.op = "getOr(obj)" =>
        /\ last.ret.k = "T&"
        /\ last.calls = <<>>
        /\ isValid(Self) => (last.ret.at = "m_data" /\ last.ret.v = get(Self).m_value)
        /\ ~isValid(Self) => (last.ret.at = "obj" /\ last.ret.v = last.arg.v)

\* getOr(obj) with obj.m_value = 1 on an Optional<Test2> that was emptied:
\* the cell holds a destroyed object, the result refers to obj.
C15_Witness ==
    /\ last.op = "getOr(obj)" /\ Self.T = "Test2" /\ ~isValid(Self)
    /\ get(Self).k = "dead"
    /\ last.arg.v = 1 /\ last.ret.at = "obj" /\ last.ret.v = 1

\* C16: ptr(), operator->() and operator->() const return nullptr iff the
\* container is not valid, and the address of the held object, the one
\* get() refers to, when it is valid.
C16_PtrNullIffEmpty ==
    last.op \in {"ptr()", "operator->()", "operator->() const"} =>
        /\ last.ret.k = "T*"
        /\ (last.ret.at = "nullptr") <=> ~isValid(Self)
        /\ isValid(Self) => last.ret.at = "m_data"

\* C17: the destructor of a container calls T's destructor once, on the held
\* object, if the container is valid (for a T with a destructor to run), and
\* calls no destructor of T if it is not valid.
C17_DestructorDestroysHeld ==
    [][ last'.op = "~Optional()" =>
            /\ opt'[last'.self].life = "dead"
            /\ last'.calls =
                  IF isValid(opt[last'.self]) /\ ~TRIV_DEST(opt[last'.self].T)
                  THEN << DtorCall(opt[last'.self].T, "cell", get(opt[last'.self]).id) >>
                  ELSE <<>>
      ]_vars

\* A valid Optional<Test2> that held two objects in turn goes out of scope:
\* one destructor call, on the second.
C17_Witness ==
    /\ last.op = "~Optional()" /\ Self.T = "Test2" /\ Self.life = "dead"
    /\ Self.nCtor = 2 /\ Self.nDtor = 2
    /\ last.calls = << DtorCall("Test2", "cell", 2) >>

\* The calls among cs on the wrapped object, of a counting type, of a
\* temporary container.
TmpCtors(cs) == {i \in Ctors(cs) : cs[i].at = "tmp" /\ ~TRIV_DEST(cs[i].T)}
TmpDtors(cs) == {i \in Dtors(cs) : cs[i].at = "tmp" /\ ~TRIV_DEST(cs[i].T)}

C19_AssignIsSet ==
    [][ last'.op = "operator=" =>
            /\ opt'[last'.self] = set(Enter(opt[last'.self]), last'.arg).s
            /\ isValid(opt'[last'.self])
            /\ get(opt'[last'.self]).k = "obj"
            /\ get(opt'[last'.self]).m_value =
                  Construct(opt[last'.self].T, last'.arg).m_value
            /\ opt'[last'.self].nCtor = opt[last'.self].nCtor + 1
            /\ \A c \in Slots \ {last'.self} : opt'[c] = opt[c]
      ]_vars

\* opt = Test1(1) on an Optional<Test2> that held an object.
C19_Witness ==
    /\ last.op = "operator=" /\ Self.T = "Test2"
    /\ last.arg.k = "obj" /\ last.arg.U = "Test1" /\ last.arg.v = 1
    /\ isValid(Self) /\ get(Self).m_value = 1
    /\ Self.nCtor = 2 /\ Self.nDtor = 1

\* The calls that only look at the container or move out of it.
Observing ==
    {"isValid()", "get()", "getOr(obj)", "ptr()", "operator*", "operator->()",
     "operator->() const", "move()", "moveOr(obj)"}

\* C20: while a container lives, its flag goes from true to false only in a
\* reset() or a set(invalidOpt()) on it, and from false to true only in a
\* set(args...) or an operator= on it; isValid(), get(), getOr(), ptr(),
\* operator*, operator->, move() and moveOr() change no container and call
\* no destructor, and a copy or move construction leaves its source as it
\* was and calls no destructor.
C20_FlagTransitions ==
    [][ /\ \A c \in Slots :
              (opt[c].life = "alive" /\ opt'[c].life = "alive") =>
                  /\ (isValid(opt[c]) /\ ~isValid(opt'[c])) =>
                        (last'.self = c /\ last'.op \in {"reset()", "set(invalidOpt)"})
                  /\ (~isValid(opt[c]) /\ isValid(opt'[c])) =>
                        (last'.self = c /\ last'.op \in {"set(args)", "operator="})
        /\ last'.op \in Observing =>
              (opt' = opt /\ Dtors(last'.calls) = {})
        /\ last'.op \in CopyOrMove =>
              (opt'[last'.other] = opt[last'.other] /\ Dtors(last'.calls) = {})
      ]_vars

\* opt = v on an Optional<Test1> that was not valid: the flag went from false
\* to true.
C20_Witness ==
    /\ last.op = "operator=" /\ Self.T = "Test1"
    /\ isValid(Self) /\ Self.nCtor = 1 /\ Self.nDtor = 0

\* C21: a NotNull never holds nullptr while the process runs: after every
\* construction (default construction included), operator=, operator+=,
\* operator-=, operator++ and operator--, either the process has aborted or
\* rawPtr() is not nullptr.
C21_NeverNull ==
    notNull.life = "alive" => (process = Aborted \/ rawPtr(notNull) # nullptr)

\* C22: constructing a NotNull from a pointer that is nullptr at run time, or
\* assigning one with operator=, aborts the process in that very call;
\* constructing from or assigning a pointer that is not nullptr does not
\* abort, and rawPtr() is that pointer afterwards.
C22_AbortOnNull ==
    lastNN.op \in {"NotNull(Type)", "operator="} =>
        IF lastNN.arg = nullptr
        THEN process = Aborted
        ELSE process = Running /\ notNull.life = "alive" /\ rawPtr(notNull) = lastNN.arg

\* n = ptr with ptr == nullptr on a living NotNull: the process has aborted.
C22_Witness ==
    /\ lastNN.op = "operator=" /\ lastNN.arg = nullptr
    /\ notNull.life = "alive" /\ process = Aborted

\* C23: operator boolean() returns whether the wrapped pointer is not
\* nullptr and operator!() whether it is nullptr; n && p is true iff p is
\* not nullptr and n || p is always true.
C23_LogicalOperators ==
    /\ lastNN.op = "operator boolean" => (lastNN.ret.b <=> rawPtr(notNull) # nullptr)
    /\ lastNN.op = "operator!" => (lastNN.ret.b <=> rawPtr(notNull) = nullptr)
    /\ lastNN.op = "operator&&" => (lastNN.ret.b <=> lastNN.arg # nullptr)
    /\ lastNN.op = "operator||" => lastNN.ret.b

\* The last statement was a call of assertImpl whose condition was false.
Failed == lastAssert.op = "assertImpl" /\ ~lastAssert.b

\* The events of the last call that are of kind ev.
EventsOf(ev) == {i \in 1..Len(lastAssert.events) : lastAssert.events[i].ev = ev}

\* C24: an assertion whose condition is true does nothing, whatever the
\* settings: it prints nothing, calls no callback, does not break, does not
\* exit, and leaves the settings as they were.
C24_SuccessDoesNothing ==
    (lastAssert.op = "assertImpl" /\ lastAssert.b) =>
        /\ lastAssert.events = <<>>
        /\ process = Running
        /\ AssertionSettings = lastAssert.before

\* NOU_ASSERT(true) with callbackOnFail set and exitOnFail true, as in the test.
C24_Witness ==
    /\ lastAssert.op = "assertImpl" /\ lastAssert.b
    /\ lastAssert.before.callbackOnFail = "assertCallbackSucceed"
    /\ lastAssert.before.exitOnFail /\ lastAssert.before.printOnFail
    /\ process = Running

\* C25, as stated: a failing assertion with exitOnFail true ends the process
\* with the exit code that was set when the assertion failed, and a callback
\* that is set is called with the message, function name, line and file.
C25_Original ==
    /\ (Failed /\ lastAssert.before.exitOnFail) =>
          process = Exited(lastAssert.before.exitCode)
    /\ (Failed /\ lastAssert.before.callbackOnFail # "nullptr") =>
          \E i \in EventsOf("callback") :
              lastAssert.events[i] =
                  AssertEvent("callback", lastAssert.before.callbackOnFail,
                              lastAssert.args, 0)

\* C25, amended: a callback that is set is called with the message, function
\* name, line and file of the failing assertion.  Control returns from a
\* failing assertion only if exitOnFail is false once the callback is done.
\* If exitOnFail is true then, the process has ended: inside the callback,
\* at the debug break, or by std::exit with the value exitCode has then (the
\* values at the time of the failure if the callback wrote neither).
C25_ExitOnFail ==
    /\ (Failed /\ lastAssert.before.callbackOnFail # "nullptr") =>
          \E i \in EventsOf("callback") :
              lastAssert.events[i] =
                  AssertEvent("callback", lastAssert.before.callbackOnFail,
                              lastAssert.args, 0)
    /\ (Failed /\ process = Running) => ~AssertionSettings.exitOnFail
    /\ (Failed /\ AssertionSettings.exitOnFail) =>
          \/ /\ process = Exited(AssertionSettings.exitCode)
             /\ lastAssert.events[Len(lastAssert.events)] =
                   AssertEvent("exit", "-", lastAssert.args, AssertionSettings.exitCode)
          \/ /\ process = Trapped
             /\ lastAssert.events[Len(lastAssert.events)].ev = "break"
          \/ /\ process = Exited(CallbackExitCode)
             /\ lastAssert.events[Len(lastAssert.events)].ev = "callback"
    /\ (Failed /\ lastAssert.before.exitOnFail /\ ~lastAssert.before.breakOnFail
            /\ lastAssert.before.callbackOnFail \in {"nullptr", "assertCallback"}) =>
          process = Exited(lastAssert.before.exitCode)

\* A failing assertion with exitOnFail true and exitCode -1 whose callback
\* writes exitCode = 0: the process exits with 0.
C25_Witness ==
    /\ Failed /\ lastAssert.before.exitOnFail
    /\ lastAssert.before.callbackOnFail = "setsExitCode"
    /\ lastAssert.before.exitCode = 0 - 1
    /\ process = Exited(0)

\* C26: the settings start as printOnFail = true, callbackOnFail = nullptr,
\* breakOnFail = false, exitOnFail = false, exitCode = -1, and with these a
\* failing assertion only prints its message: no callback, no break, no
\* exit, the process goes on and the settings stay as they are.
C26_DefaultsOnlyPrint ==
    /\ DefaultSettings.printOnFail /\ DefaultSettings.callbackOnFail = "nullptr"
    /\ ~DefaultSettings.breakOnFail /\ ~DefaultSettings.exitOnFail
    /\ DefaultSettings.exitCode = 0 - 1
    /\ lastAssert.op = "-" => AssertionSettings = DefaultSettings
    /\ (Failed /\ lastAssert.before = DefaultSettings) =>
          /\ lastAssert.events = << AssertEvent("print", "-", lastAssert.args, 0) >>
          /\ process = Running
          /\ AssertionSettings = DefaultSettings

\* NOU_ASSERT(i >= 10) failing in someFunction under the default settings.
C26_Witness ==
    /\ Failed /\ lastAssert.before = DefaultSettings
    /\ lastAssert.args.fnName = "someFunction"
    /\ Len(lastAssert.events) = 1 /\ process = Running

\* The place of a behaviour in the order print, callback, debug break, exit.
Rank(ev) ==
    CASE ev = "print" -> 1 [] ev = "callback" -> 2 [] ev = "break" -> 3 [] OTHER -> 4

\* C30: the behaviours of a failing assertion happen in the order print,
\* callback, debug break, exit, each at most once.  The print and the
\* callback are those enabled when the assertion fails; an exit made by
\* assertImpl is the last behaviour, so the callback is complete before it,
\* and it uses exitOnFail and exitCode as the callback left them.
C30_FixedOrder ==
    Failed =>
        /\ \A i, j \in 1..Len(lastAssert.events) :
              i < j => Rank(lastAssert.events[i].ev) < Rank(lastAssert.events[j].ev)
        /\ (EventsOf("print") # {}) <=> lastAssert.before.printOnFail
        /\ (EventsOf("callback") # {}) <=> lastAssert.before.callbackOnFail # "nullptr"
        /\ EventsOf("break") # {} => AssertionSettings.breakOnFail
        /\ \A i \in EventsOf("exit") :
              /\ i = Len(lastAssert.events)
              /\ AssertionSettings.exitOnFail
              /\ lastAssert.events[i].code = AssertionSettings.exitCode
              /\ process = Exited(AssertionSettings.exitCode)
        /\ (lastAssert.before.callbackOnFail = "clearsExitOnFail") =>
              EventsOf("exit") = {} /\ process \in {Running, Trapped}
        /\ (lastAssert.before.callbackOnFail = "setsExitOnFail" /\ process # Trapped) =>
              EventsOf("exit") # {}

\* A failing assertion that prints, calls a callback that sets exitOnFail,
\* passes the debug break and exits, although exitOnFail was false before.
C30_Witness ==
    /\ Failed /\ Len(lastAssert.events) = 4
    /\ ~lastAssert.before.exitOnFail
    /\ lastAssert.before.callbackOnFail = "setsExitOnFail"
    /\ process = Exited(lastAssert.before.exitCode)

\* C27: a set(args) that is left by an exception of T's constructor keeps
\* the container consistent: a valid container still holds exactly one live
\* object, and no object is destroyed a second time afterwards.
C27_SetThrowsConsistent ==
    \A c \in Slots :
        (opt[c].life # "none" /\ ~TRIV_DEST(opt[c].T)) =>
            /\ opt[c].nDtor <= opt[c].nCtor
            /\ (opt[c].life = "alive" /\ isValid(opt[c])) =>
                  LiveObjects(opt[c]) = 1 /\ opt[c].m_data.k = "obj"

\* C28: c.set(c.get()) on a valid container constructs the new object from
\* an object that is still alive (no destructor call on the cell precedes
\* the constructor call) and the value held afterwards is the value held
\* before.
C28_SetSelfSafe ==
    (last.op = "set(get())" /\ ~TRIV_DEST(opt[last.self].T)) =>
        /\ \A i, j \in 1..Len(last.calls) :
              (last.calls[i].ev = "dtor" /\ last.calls[j].ev = "ctor") => j < i
        /\ isValid(opt[last.self])
        /\ opt[last.self].m_data.m_value = last.arg.v

\* C29: operator= returns a reference to the container it was called on,
\* and no constructor or destructor of a wrapped type is called on anything
\* but the container's own cell, which is what set(args) does.
C29_AssignReturnsSelf ==
    last.op = "operator=" =>
        /\ last.ret.k = "Optional &" /\ last.ret.at = last.self
        /\ \A i \in 1..Len(last.calls) : last.calls[i].at = "cell"
====
